---- MODULE Spec2Model ----
(***************************************************************************)
(* Model of Strategies/buy_and_hold.py: the BuyAndHold position simulator  *)
(* (constructor, run = generate_signals + execute_strategy) and its        *)
(* padding accessors and derived-metric functions.                         *)
(*                                                                         *)
(* Numbers.  The program computes with Python/numpy floats.  They are      *)
(* modelled as exact fractions [n, d] in lowest terms with d >= 0, where   *)
(* d = 0 encodes the non-finite numpy values: 1/0 is +inf, -1/0 is -inf    *)
(* and 0/0 is NaN.  numpy division by zero yields inf or NaN (with a       *)
(* RuntimeWarning), never an exception, and every comparison with NaN is   *)
(* false.  Rounding error and signed zeros are not modelled.               *)
(*                                                                         *)
(* Indices.  Python sequences are 0-based, TLA+ sequences 1-based:         *)
(* At(s, j) is Python's s[j].                                              *)
(***************************************************************************)
EXTENDS Integers, Sequences, FiniteSets, TLC

(* ------------------------------ bounds -------------------------------- *)
\* longest input table (number of periods N = len(df))
MaxN == 3
\* run() calls made on one object
MaxRuns == 2
\* accessor / derived-metric calls made on one object
MaxCalls == 1

\* values of the 'Adj Close' column (0 is an invalid price)
PriceSet == {0, 1, 2}
\* initial investments and leverages tried (0 is an invalid configuration)
V0Set == {0, 1, 2}
LSet == {[n |-> 0, d |-> 1], [n |-> 1, d |-> 2], [n |-> 1, d |-> 1],
         [n |-> 2, d |-> 1]}
\* the ('Return/Unit', 'Daily Rate') pairs a row may carry.  No value the
\* program computes depends on both columns, so the pairs need not be a
\* full product.
RowSet == {[ret |-> -1, rate |-> 0], [ret |-> 2, rate |-> 100]}

(* --------------------------- float arithmetic -------------------------- *)
AbsI(k) == IF k < 0 THEN -k ELSE k
SgnI(k) == IF k < 0 THEN -1 ELSE IF k > 0 THEN 1 ELSE 0
SgnNZ(k) == IF k < 0 THEN -1 ELSE 1
MinI(a, b) == IF a < b THEN a ELSE b
MaxI(a, b) == IF a > b THEN a ELSE b

RECURSIVE GCD(_, _)
GCD(a, b) == IF b = 0 THEN a ELSE GCD(b, a % b)

\* the float n/d (d >= 0), in lowest terms
Rat(n, d) ==
    IF d = 0 THEN [n |-> SgnI(n), d |-> 0]
    ELSE LET g == GCD(AbsI(n), d) IN [n |-> n \div g, d |-> d \div g]

F(k) == [n |-> k, d |-> 1]
Zero == F(0)
NaN == [n |-> 0, d |-> 0]
IsNaN(x) == x.d = 0 /\ x.n = 0
IsInf(x) == x.d = 0 /\ x.n # 0

Neg(x) == [n |-> -x.n, d |-> x.d]
AbsR(x) == [n |-> AbsI(x.n), d |-> x.d]
Mul(x, y) == Rat(x.n * y.n, x.d * y.d)
Div(x, y) == Rat(x.n * y.d * SgnNZ(y.n), x.d * AbsI(y.n))
Add(x, y) ==
    IF IsNaN(x) \/ IsNaN(y) THEN NaN
    ELSE IF IsInf(x) THEN (IF IsInf(y) /\ y.n # x.n THEN NaN ELSE x)
    ELSE IF IsInf(y) THEN y
    ELSE Rat(x.n * y.d + y.n * x.d, x.d * y.d)
Sub(x, y) == Add(x, Neg(y))

\* x < y on floats: false when either side is NaN
Lt(x, y) ==
    IF IsNaN(x) \/ IsNaN(y) THEN FALSE
    ELSE IF IsInf(x) THEN x.n < 0 /\ y # x
    ELSE IF IsInf(y) THEN y.n > 0
    ELSE x.n * y.d < y.n * x.d
Gt(x, y) == Lt(y, x)
Le(x, y) == ~IsNaN(x) /\ ~IsNaN(y) /\ (x = y \/ Lt(x, y))

(* ------------------------------ sequences ------------------------------ *)
At(s, j) == s[j + 1]
Last(s) == s[Len(s)]
Zeros(k) == [j \in 1..k |-> Zero]

(* -------------------------------- state -------------------------------- *)
VARIABLES
    pc,          \* "new": not constructed; "raised": the constructor raised;
                 \* "idle": constructed, no call in progress; "loop": inside
                 \* execute_strategy's for loop
    AdjClose,    \* df['Adj Close']
    ReturnUnit,  \* df['Return/Unit']
    DailyRate,   \* df['Daily Rate']
    df,          \* the columns the accessors attach to df
    V_0, L, theta_0,
    signals,
    theta, cap_V, PnL, stock_hold,
    i,           \* execute_strategy's loop variable
    regime,      \* the branch taken by the last loop iteration
    runs,        \* run() calls that have returned
    calls,       \* accessor calls that have returned
    once         \* history: the four series as the getters expose them, taken
                 \* when the object's first run() returned

raw == <<theta, cap_V, PnL, stock_hold>>
inputs == <<AdjClose, ReturnUnit, DailyRate, V_0, L>>
vars == <<pc, AdjClose, ReturnUnit, DailyRate, df, V_0, L, theta_0, signals,
          theta, cap_V, PnL, stock_hold, i, regime, runs, calls, once>>

\* len(self.df)
N == Len(AdjClose)

NoViews == [theta |-> <<>>, stock_hold |-> <<>>, cap_V |-> <<>>, PnL |-> <<>>]
NoSignals == [Signal |-> <<>>, Position |-> <<>>]
NoColumns ==
    [theta |-> <<>>, StockHolding |-> <<>>, CapitalMoney |-> <<>>, PnL |-> <<>>,
     CumulativePnL |-> <<>>, delta_theta |-> <<>>, turnover_dollars |-> <<>>,
     delta_stock_hold |-> <<>>, turnover_unit |-> <<>>,
     cumulative_cap_V |-> <<>>, delta_cap_V |-> <<>>]

\* The input tables: n aligned rows.  Row 0 of 'Return/Unit' and of
\* 'Daily Rate' is never read by the program and is fixed.
Tables(n) ==
    {[AdjClose |-> p,
      ReturnUnit |-> [j \in 1..n |-> IF j = 1 THEN 0 ELSE r[j].ret],
      DailyRate |-> [j \in 1..n |-> IF j = 1 THEN 0 ELSE r[j].rate]] :
        p \in [1..n -> PriceSet], r \in [1..n -> RowSet]}

Init ==
    /\ pc = "new"
    /\ \E n \in 0..MaxN : \E t \in Tables(n) :
         /\ AdjClose = t.AdjClose
         /\ ReturnUnit = t.ReturnUnit
         /\ DailyRate = t.DailyRate
    /\ V_0 \in V0Set
    /\ L \in LSet
    /\ theta_0 = Zero
    /\ df = NoColumns
    /\ signals = NoSignals
    /\ theta = <<>> /\ cap_V = <<>> /\ PnL = <<>> /\ stock_hold = <<>>
    /\ i = 0
    /\ regime = "none"
    /\ runs = 0
    /\ calls = 0
    /\ once = NoViews

(* ----------------------------- __init__ -------------------------------- *)
Theta0(v, l) == Mul(F(v), l)
\* variant: the seed holding multiplies by the seed price
SeedStockHoldTimes(t0, p0) == Mul(t0, F(p0))
SeedStockHold(t0, p0) == Div(t0, F(p0))

\* df['Adj Close'][0] raises on an empty table; otherwise every
\* configuration is accepted and the four sequences are seeded
Construct ==
    /\ pc = "new"
    /\ IF N = 0
       THEN /\ pc' = "raised"
            /\ UNCHANGED <<theta_0, theta, cap_V, PnL, stock_hold>>
       ELSE /\ pc' = "idle"
            /\ theta_0' = Theta0(V_0, L)
            /\ theta' = <<Theta0(V_0, L)>>
            /\ cap_V' = <<Zero>>
            /\ PnL' = <<Zero>>
            /\ stock_hold' = <<SeedStockHold(Theta0(V_0, L), At(AdjClose, 0))>>
    /\ UNCHANGED <<inputs, df, signals, i, regime, runs, calls, once>>

(* ------------------------- generate_signals ---------------------------- *)
GenerateSignals ==
    [Signal |-> [j \in 1..N |-> 1],
     Position |-> [j \in 1..N |-> IF j = 1 THEN NaN ELSE Zero]]

\* run(): generate_signals(), then execute_strategy() enters its loop
RunBegin ==
    /\ pc = "idle"
    /\ runs < MaxRuns
    /\ signals' = GenerateSignals
    /\ i' = 0
    /\ regime' = "none"
    /\ pc' = "loop"
    /\ UNCHANGED <<inputs, df, theta_0, raw, runs, calls, once>>

(* --------------------------- padded series ----------------------------- *)
\* s.extend([0] * (len(self.df) - len(s))): a non-positive count extends by
\* nothing
\* variant: one zero too many
PadOneMore(s) == s \o Zeros(MaxI(0, N - Len(s) + 1))
Pad(s) == s \o Zeros(MaxI(0, N - Len(s)))
\* s[:len(self.df)]
Slice(s) == SubSeq(s, 1, MinI(N, Len(s)))

\* the four series as get_theta, get_stock_hold, get_cap_V and get_PnL
\* return them
Views ==
    [theta |-> Slice(Pad(theta)), stock_hold |-> Slice(Pad(stock_hold)),
     cap_V |-> Slice(Pad(cap_V)), PnL |-> Slice(Pad(PnL))]

(* ------------------------- execute_strategy ---------------------------- *)
\* theta_t = self.stock_hold[i-1] * self.df['Adj Close'][i]
TrialExposure(j) == Mul(At(stock_hold, j - 1), F(At(AdjClose, j)))

OverExposed(t) == Gt(AbsR(t), theta_0)
\* variant: the band has no lower edge
WithinBandNoFloor(t) == Le(AbsR(t), theta_0)
\* variant: the lower edge is V0 - theta0
WithinBandSwapped(t) ==
    Le(AbsR(t), theta_0) /\ Gt(AbsR(t), Sub(F(V_0), theta_0))
WithinBand(t) == Le(AbsR(t), theta_0) /\ Gt(AbsR(t), Sub(theta_0, F(V_0)))

OverCapV(t) == Sub(AbsR(t), theta_0)
StepPnL(j, t) == Mul(F(At(ReturnUnit, j)), t)
OverTheta(j) == Mul(theta_0, F(At(signals.Signal, j)))
\* variant: the trimmed position keeps the holding of the previous period
OverHoldStale(j) == Last(stock_hold)
OverHold(j) == Div(OverTheta(j), F(At(AdjClose, j)))
\* variant: the band carries the seed holding forward
BandHoldSeed == At(stock_hold, 0)
BandHold == Last(stock_hold)

\* variant: the period's profit is not recorded
RecordNoPnL(c, t, h, p) ==
    /\ cap_V' = Append(cap_V, c)
    /\ theta' = Append(theta, t)
    /\ stock_hold' = Append(stock_hold, h)
    /\ PnL' = PnL

Record(c, t, h, p) ==
    /\ cap_V' = Append(cap_V, c)
    /\ theta' = Append(theta, t)
    /\ stock_hold' = Append(stock_hold, h)
    /\ PnL' = Append(PnL, p)

\* one iteration taking the branch  if abs(theta_t) > self.theta_0
StepOverExposed ==
    /\ pc = "loop"
    /\ i + 1 < N
    /\ LET j == i + 1
           t == TrialExposure(j)
       IN /\ OverExposed(t)
          /\ Record(OverCapV(t), OverTheta(j), OverHold(j), StepPnL(j, t))
          /\ i' = j
    /\ regime' = "over"
    /\ UNCHANGED <<pc, inputs, df, theta_0, signals, runs, calls, once>>

\* one iteration taking the elif branch
StepWithinBand ==
    /\ pc = "loop"
    /\ i + 1 < N
    /\ LET j == i + 1
           t == TrialExposure(j)
       IN /\ ~OverExposed(t)
          /\ WithinBand(t)
          /\ Record(Zero, t, BandHold, StepPnL(j, t))
          /\ i' = j
    /\ regime' = "within"
    /\ UNCHANGED <<pc, inputs, df, theta_0, signals, runs, calls, once>>

\* variant: the else branch does not leave the loop
StepWipeoutNoBreak ==
    /\ pc = "loop"
    /\ i + 1 < N
    /\ LET j == i + 1
           t == TrialExposure(j)
       IN /\ ~OverExposed(t)
          /\ ~WithinBand(t)
          /\ i' = j
    /\ regime' = "wipeout"
    /\ UNCHANGED <<pc, inputs, df, theta_0, signals, raw, runs, calls, once>>

\* one iteration taking the else branch: break, so nothing is appended and
\* execute_strategy and run return
StepWipeout ==
    /\ pc = "loop"
    /\ i + 1 < N
    /\ LET j == i + 1
           t == TrialExposure(j)
       IN /\ ~OverExposed(t)
          /\ ~WithinBand(t)
          /\ i' = j
    /\ regime' = "wipeout"
    /\ pc' = "idle"
    /\ runs' = runs + 1
    /\ once' = IF runs = 0 THEN Views ELSE once
    /\ UNCHANGED <<inputs, df, theta_0, signals, raw, calls>>

\* range(1, len(self.df)) is exhausted: execute_strategy and run return
LoopExit ==
    /\ pc = "loop"
    /\ i + 1 >= N
    /\ pc' = "idle"
    /\ runs' = runs + 1
    /\ once' = IF runs = 0 THEN Views ELSE once
    /\ UNCHANGED <<inputs, df, theta_0, signals, raw, i, regime, calls>>

(* ------------------------------ accessors ------------------------------ *)
\* Series.shift(1)
Shift(s) == [j \in 1..Len(s) |-> IF j = 1 THEN NaN ELSE s[j - 1]]
\* elementwise a - b of two aligned Series
SubSeries(a, b) == [j \in 1..Len(a) |-> Sub(a[j], b[j])]
\* variant: the signed changes are summed
AbsSeriesSigned(a) == a
AbsSeries(a) == [j \in 1..Len(a) |-> AbsR(a[j])]

\* Series.cumsum(): NaN entries are skipped by the running sum and stay NaN
RECURSIVE RunningSum(_, _)
RunningSum(s, k) ==
    IF k = 0 THEN Zero
    ELSE Add(RunningSum(s, k - 1), IF IsNaN(s[k]) THEN Zero ELSE s[k])
\* variant: the running sum stops one period short
CumSumExclusive(s) ==
    [j \in 1..Len(s) |-> IF IsNaN(s[j]) THEN NaN ELSE RunningSum(s, j - 1)]
CumSum(s) == [j \in 1..Len(s) |-> IF IsNaN(s[j]) THEN NaN ELSE RunningSum(s, j)]

\* cap_V_total of get_cumulative_cap_V over the padded column c
RECURSIVE CapVTotal(_, _)
\* variant: the period's capital is added after the interest is applied
CapVTotalLate(c, j) ==
    IF j = 0 THEN Zero
    ELSE Add(Mul(CapVTotal(c, j - 1),
                 Add(F(1), Div(F(At(DailyRate, j)), F(100)))),
             At(c, j))
CapVTotal(c, j) ==
    IF j = 0 THEN Zero
    ELSE Mul(Add(CapVTotal(c, j - 1), At(c, j)),
             Add(F(1), Div(F(At(DailyRate, j)), F(100))))
CumulativeCapV(c) == [j \in 1..Len(c) |-> CapVTotal(c, j - 1)]

\* The accessors are called on an object whose run() has returned.
Callable ==
    /\ pc = "idle"
    /\ runs >= 1
    /\ calls < MaxCalls

Returned ==
    /\ calls' = calls + 1
    /\ UNCHANGED <<pc, inputs, theta_0, signals, i, regime, runs, once>>

get_theta ==
    /\ Callable
    /\ theta' = Pad(theta)
    /\ df' = [df EXCEPT !.theta = Slice(Pad(theta))]
    /\ UNCHANGED <<cap_V, PnL, stock_hold>>
    /\ Returned

get_stock_hold ==
    /\ Callable
    /\ stock_hold' = Pad(stock_hold)
    /\ df' = [df EXCEPT !.StockHolding = Slice(Pad(stock_hold))]
    /\ UNCHANGED <<theta, cap_V, PnL>>
    /\ Returned

get_cap_V ==
    /\ Callable
    /\ cap_V' = Pad(cap_V)
    /\ df' = [df EXCEPT !.CapitalMoney = Slice(Pad(cap_V))]
    /\ UNCHANGED <<theta, PnL, stock_hold>>
    /\ Returned

get_PnL ==
    /\ Callable
    /\ PnL' = Pad(PnL)
    /\ df' = [df EXCEPT !.PnL = Slice(Pad(PnL))]
    /\ UNCHANGED <<theta, cap_V, stock_hold>>
    /\ Returned

get_cumulative_PnL ==
    /\ Callable
    /\ PnL' = Pad(PnL)
    /\ df' = [df EXCEPT !.PnL = Slice(Pad(PnL)),
                        !.CumulativePnL = CumSum(Slice(Pad(PnL)))]
    /\ UNCHANGED <<theta, cap_V, stock_hold>>
    /\ Returned

get_turnover_dollars ==
    /\ Callable
    /\ theta' = Pad(theta)
    /\ LET col == Slice(Pad(theta))
           delta == SubSeries(col, Shift(col))
       IN df' = [df EXCEPT !.theta = col,
                           !.delta_theta = delta,
                           !.turnover_dollars = CumSum(AbsSeries(delta))]
    /\ UNCHANGED <<cap_V, PnL, stock_hold>>
    /\ Returned

get_turnover_unit ==
    /\ Callable
    /\ stock_hold' = Pad(stock_hold)
    /\ LET col == Slice(Pad(stock_hold))
           delta == SubSeries(col, Shift(col))
       IN df' = [df EXCEPT !.StockHolding = col,
                           !.delta_stock_hold = delta,
                           !.turnover_unit = CumSum(AbsSeries(delta))]
    /\ UNCHANGED <<theta, cap_V, PnL>>
    /\ Returned

get_cumulative_cap_V ==
    /\ Callable
    /\ cap_V' = Pad(cap_V)
    /\ df' = [df EXCEPT !.CapitalMoney = Slice(Pad(cap_V)),
                        !.cumulative_cap_V = CumulativeCapV(Slice(Pad(cap_V)))]
    /\ UNCHANGED <<theta, PnL, stock_hold>>
    /\ Returned

get_delta_cap_V ==
    /\ Callable
    /\ cap_V' = Pad(cap_V)
    /\ LET cum == CumulativeCapV(Slice(Pad(cap_V)))
       IN df' = [df EXCEPT !.CapitalMoney = Slice(Pad(cap_V)),
                           !.cumulative_cap_V = cum,
                           !.delta_cap_V = SubSeries(cum, Shift(cum))]
    /\ UNCHANGED <<theta, PnL, stock_hold>>
    /\ Returned

Next ==
    \/ Construct
    \/ RunBegin
    \/ StepOverExposed
    \/ StepWithinBand
    \/ StepWipeout
    \/ LoopExit
    \/ get_theta
    \/ get_stock_hold
    \/ get_cap_V
    \/ get_PnL
    \/ get_cumulative_PnL
    \/ get_turnover_dollars
    \/ get_turnover_unit
    \/ get_cumulative_cap_V
    \/ get_delta_cap_V

Spec == Init /\ [][Next]_vars

\* The object's life without its accessors: construction and run() calls.
\* execute_strategy is a sequential for loop over a finite range: once
\* entered, its next iteration (or its exit) is always taken.
LoopStep == StepOverExposed \/ StepWithinBand \/ StepWipeout \/ LoopExit
RunNext ==
    \/ Construct
    \/ RunBegin
    \/ StepOverExposed
    \/ StepWithinBand
    \/ StepWipeout
    \/ LoopExit
FairRunSpec == Init /\ [][RunNext]_vars /\ WF_vars(LoopStep)

(* ============================== properties ============================= *)
\* the trial exposure of period j, from the recorded holdings
Trial(j) == Mul(At(stock_hold, j - 1), F(At(AdjClose, j)))
\* theta0 - V0
Floor == Sub(theta_0, F(V_0))
\* the object has made at most one run() and no accessor has padded a
\* sequence: index j of a sequence is what period j recorded
FirstRun ==
    \/ runs = 0 /\ pc \in {"idle", "loop"}
    \/ runs = 1 /\ pc = "idle" /\ calls = 0
Recorded == 1..(Len(theta) - 1)
ValidParams == V_0 > 0 /\ L.n > 0
ValidConfig == ValidParams /\ N >= 1 /\ At(AdjClose, 0) > 0
AllPricesPositive == \A j \in 1..N : AdjClose[j] > 0
SameLength ==
    /\ Len(cap_V) = Len(theta)
    /\ Len(stock_hold) = Len(theta)
    /\ Len(PnL) = Len(theta)

\* C1: when the first run on a valid configuration and strictly positive
\* prices ends in the wipeout regime at period k = i, each of the four raw
\* sequences has k+1 elements, and its padded view has length N with zeros
\* from index k+1 onward.
C1_WipeoutLengths ==
    (ValidConfig /\ AllPricesPositive /\ pc = "idle" /\ runs = 1
                 /\ calls = 0 /\ regime = "wipeout") =>
        \A s \in {theta, cap_V, stock_hold, PnL} :
            /\ Len(s) = i + 1
            /\ Len(Slice(Pad(s))) = N
            /\ \A j \in (i + 1)..(N - 1) : At(Slice(Pad(s)), j) = Zero

\* C2: the regime taken at the period i just processed is over-exposed iff
\* |theta_t| > theta0, within-band iff theta0 - V0 < |theta_t| <= theta0 and
\* wipeout iff |theta_t| <= theta0 - V0 (so exactly one condition holds).
C2_RegimeSelection ==
    (FirstRun /\ regime # "none") =>
        LET a == AbsR(Trial(i)) IN
        /\ (regime = "over") <=> Gt(a, theta_0)
        /\ (regime = "within") <=> (Gt(a, Floor) /\ Le(a, theta_0))
        /\ (regime = "wipeout") <=> Le(a, Floor)

\* C3: a period i >= 1 whose price is zero is never classified into a
\* regime: the run has stopped with an error.  (Stated for the valid
\* configurations, where the zero price is the only invalid datum.)
C3_ZeroPriceIsFatal ==
    (ValidConfig /\ regime # "none" /\ At(AdjClose, i) = 0) => pc = "raised"

\* C4: with V0 <= 0, L <= 0 or price[0] <= 0 no object with seeded
\* sequences exists, and no simulation step runs.
C4_InvalidConfigRejected ==
    (V_0 <= 0 \/ L.n <= 0 \/ (N >= 1 /\ At(AdjClose, 0) <= 0)) =>
        /\ pc \in {"new", "raised"}
        /\ theta = <<>> /\ cap_V = <<>> /\ stock_hold = <<>> /\ PnL = <<>>

\* C5: from construction until the first run() returns, every step leaves
\* the four raw sequences equally long, and a step of the loop either
\* lengthens each of them by exactly one element or halts the simulation
\* leaving them as they are.
C5_LockStep ==
    [][runs = 0 =>
        /\ SameLength'
        /\ pc = "loop" =>
             \/ /\ pc' = "loop"
                /\ Len(theta') = Len(theta) + 1
                /\ Len(cap_V') = Len(cap_V) + 1
                /\ Len(stock_hold') = Len(stock_hold) + 1
                /\ Len(PnL') = Len(PnL) + 1
             \/ /\ pc' = "idle"
                /\ UNCHANGED raw]_vars

\* a first run that grew the sequences at period 1 and halted at period 2
C5_Witness ==
    /\ pc = "idle" /\ runs = 1 /\ calls = 0
    /\ regime = "wipeout" /\ i = 2 /\ Len(theta) = 2

\* C6: every period j recorded with |theta_t| > theta0 has
\* cap_V[j] = |theta_t| - theta0, PnL[j] = return[j] * theta_t (the
\* pre-trim exposure), theta[j] = theta0 * signal[j] = theta0 and
\* stock_hold[j] = theta[j] / price[j].
C6_OverExposedRecord ==
    FirstRun =>
        \A j \in Recorded :
            LET t == Trial(j) IN
            Gt(AbsR(t), theta_0) =>
                /\ At(cap_V, j) = Sub(AbsR(t), theta_0)
                /\ At(PnL, j) = Mul(F(At(ReturnUnit, j)), t)
                /\ At(theta, j) = Mul(theta_0, F(At(signals.Signal, j)))
                /\ At(theta, j) = theta_0
                /\ At(stock_hold, j) = Div(At(theta, j), F(At(AdjClose, j)))

\* an over-exposed period whose trimmed holding differs from the previous one
C6_Witness ==
    /\ FirstRun
    /\ \E j \in Recorded :
          /\ Gt(AbsR(Trial(j)), theta_0)
          /\ At(stock_hold, j) # At(stock_hold, j - 1)
          /\ At(PnL, j) # Zero

\* C7: every period j recorded with theta0 - V0 < |theta_t| <= theta0 has
\* cap_V[j] = 0, theta[j] = theta_t, PnL[j] = return[j] * theta_t and
\* stock_hold[j] = stock_hold[j-1].
C7_WithinBandRecord ==
    FirstRun =>
        \A j \in Recorded :
            LET t == Trial(j) IN
            (Gt(AbsR(t), Floor) /\ Le(AbsR(t), theta_0)) =>
                /\ At(cap_V, j) = Zero
                /\ At(theta, j) = t
                /\ At(PnL, j) = Mul(F(At(ReturnUnit, j)), t)
                /\ At(stock_hold, j) = At(stock_hold, j - 1)

\* a within-band period that follows a rebalanced one
C7_Witness ==
    /\ FirstRun
    /\ \E j \in Recorded :
          /\ j >= 2
          /\ Gt(AbsR(Trial(j)), Floor) /\ Le(AbsR(Trial(j)), theta_0)
          /\ At(stock_hold, j - 1) # At(stock_hold, 0)

\* C8: for V0 > 0, L > 0 and price[0] > 0 the constructed object has
\* theta[0] = V0*L, cap_V[0] = 0, PnL[0] = 0 and
\* stock_hold[0] = theta0/price[0], and run() never changes them.
C8_Seeds ==
    (ValidConfig /\ pc \in {"idle", "loop"}) =>
        /\ At(theta, 0) = Rat(V_0 * L.n, L.d)
        /\ At(cap_V, 0) = Zero
        /\ At(PnL, 0) = Zero
        /\ At(stock_hold, 0) = Rat(V_0 * L.n, L.d * At(AdjClose, 0))

\* a run on a valid configuration has returned after recording two periods
C8_Witness ==
    /\ ValidConfig /\ pc = "idle" /\ runs >= 1 /\ Len(theta) >= 3
    /\ At(AdjClose, 0) = 2

\* C2 restricted to the configurations the constructor is meant to accept
RegimeSelectionValid == ValidConfig => C2_RegimeSelection

\* C9 as stated: with fewer than 2 periods construction and run() succeed,
\* no period step is made and each sequence holds only its seed.  (Stated
\* for V0 > 0 and L > 0, so that the table's length is the only issue.)
C9_ShortSeries ==
    (ValidParams /\ N < 2 /\ pc # "new") =>
        /\ pc # "raised"
        /\ regime = "none"
        /\ Len(theta) = 1 /\ Len(cap_V) = 1
        /\ Len(stock_hold) = 1 /\ Len(PnL) = 1

\* C9 amended: with exactly 1 period construction and run() succeed, no
\* period step is made and each sequence holds only its seed; with 0
\* periods the constructor raises.
C9_OnePeriod ==
    /\ (N = 1 /\ pc # "new") =>
          /\ pc # "raised"
          /\ regime = "none"
          /\ theta = <<theta_0>> /\ cap_V = <<Zero>> /\ PnL = <<Zero>>
          /\ Len(stock_hold) = 1
    /\ (N = 0 /\ pc # "new") => pc = "raised"

\* run() has returned on a one-period table
C9_Witness == N = 1 /\ pc = "idle" /\ runs >= 1

\* C10: an accessor or derived-metric call leaves the four raw sequences
\* unchanged.  (Stated for valid configurations and positive prices.)
C10_AccessorsReadOnly ==
    [][(ValidConfig /\ AllPricesPositive /\ calls' # calls) =>
          UNCHANGED raw]_vars

\* the period at which the last run stopped recording: the wipeout period,
\* or N when every period was processed
Term == IF regime = "wipeout" THEN i ELSE N
\* s[0] + ... + s[j]
RECURSIVE SumTo(_, _)
SumTo(s, j) == IF j = 0 THEN At(s, 0) ELSE Add(SumTo(s, j - 1), At(s, j))

\* C11: the cumulative P&L series has one value per period, the value at
\* period j is the sum of the raw P&L values of periods 0..j, and after a
\* single run the periods from the termination period onward count as zero.
C11_CumulativePnL ==
    df.CumulativePnL # <<>> =>
        /\ Len(df.CumulativePnL) = N
        /\ \A j \in 0..(N - 1) : At(df.CumulativePnL, j) = SumTo(PnL, j)
        /\ runs = 1 => \A j \in Term..(N - 1) : At(PnL, j) = Zero

\* the cumulative P&L of a single run that recorded a non-zero P&L at
\* period 1 and was wiped out at period 2
C11_Witness ==
    /\ df.CumulativePnL # <<>> /\ runs = 1
    /\ N = 3 /\ regime = "wipeout" /\ i = 2
    /\ At(PnL, 1) # Zero
    /\ At(df.CumulativePnL, 2) = At(PnL, 1)

\* t[j] <= t[j+1] wherever both values of the series are defined
NonDecreasing(t) ==
    \A j \in 0..(Len(t) - 2) :
        (~IsNaN(At(t, j)) /\ ~IsNaN(At(t, j + 1))) => Le(At(t, j), At(t, j + 1))

\* C12: the turnover-in-dollars and turnover-in-units series are
\* non-decreasing over the padded period range.
C12_TurnoverMonotone ==
    /\ NonDecreasing(df.turnover_dollars)
    /\ NonDecreasing(df.turnover_unit)

\* the dollar turnover of a run wiped out at period 2: the padded exposure
\* drops to zero there and the turnover grows by that drop
C12_Witness ==
    /\ ValidConfig /\ AllPricesPositive
    /\ df.turnover_dollars # <<>> /\ runs = 1
    /\ N = 3 /\ regime = "wipeout" /\ i = 2
    /\ At(df.theta, 1) # Zero /\ At(df.theta, 2) = Zero
    /\ Lt(At(df.turnover_dollars, 1), At(df.turnover_dollars, 2))

\* C13: the compounded capital series has length N, value 0 at period 0 and
\* value (compounded[j-1] + padded cap_V[j]) * (1 + dailyRate[j]/100) at
\* every period j >= 1.
C13_CompoundedCapV ==
    df.cumulative_cap_V # <<>> =>
        /\ Len(df.cumulative_cap_V) = N
        /\ At(df.cumulative_cap_V, 0) = Zero
        /\ \A j \in 1..(N - 1) :
              At(df.cumulative_cap_V, j) =
                  Mul(Add(At(df.cumulative_cap_V, j - 1), At(df.CapitalMoney, j)),
                      Rat(100 + At(DailyRate, j), 100))
        /\ \A j \in 0..(N - 1) : At(df.CapitalMoney, j) = At(cap_V, j)
        /\ runs = 1 => \A j \in Term..(N - 1) : At(cap_V, j) = Zero

\* the compounded series of a run that routed capital at period 1 under a
\* non-zero rate and was wiped out at period 2
C13_Witness ==
    /\ df.cumulative_cap_V # <<>> /\ runs = 1
    /\ N = 3 /\ regime = "wipeout" /\ i = 2
    /\ At(cap_V, 1) # Zero /\ At(DailyRate, 1) # 0
    /\ At(df.cumulative_cap_V, 2) # Zero

\* how a run may end and what it may do on the way: the loop variable never
\* passes N-1, nothing is processed after a wipeout, and the first run
\* returns either with every period recorded or wiped out at period i with
\* nothing recorded after it
RunOutcome ==
    /\ i <= MaxI(N - 1, 0)
    /\ regime = "wipeout" => pc = "idle"
    /\ (pc = "idle" /\ runs = 1 /\ calls = 0) =>
          \/ /\ regime # "wipeout"
             /\ i = N - 1
             /\ Len(theta) = N /\ SameLength
          \/ /\ regime = "wipeout"
             /\ i \in 1..(N - 1)
             /\ Len(theta) <= i + 1 /\ SameLength

\* C14: every run() terminates after at most N-1 period steps, and ends
\* either with all periods processed and raw sequences of length N, or
\* with the wipeout at some period k and no later period processed.
C14_RunTerminates ==
    /\ []RunOutcome
    /\ (pc = "loop") ~> (pc = "idle")

\* a first run over three periods has returned without a wipeout
C14_Witness ==
    /\ pc = "idle" /\ runs = 1 /\ calls = 0
    /\ N = 3 /\ regime # "wipeout" /\ Len(theta) = 3

\* C15: for V0 > 0, L > 0 and strictly positive prices, every element a
\* single run records (seed included) has theta0 - V0 < |theta[j]| <= theta0,
\* stock_hold[j] > 0 and cap_V[j] >= 0.
C15_RecordedRanges ==
    (FirstRun /\ ValidConfig /\ AllPricesPositive) =>
        \A j \in 0..(Len(theta) - 1) :
            /\ Gt(AbsR(At(theta, j)), Floor)
            /\ Le(AbsR(At(theta, j)), theta_0)
            /\ Gt(At(stock_hold, j), Zero)
            /\ Le(Zero, At(cap_V, j))

\* a single run that routed capital at period 1 and was wiped out, with a
\* negative shortfall, at period 2
C15_Witness ==
    /\ ValidConfig /\ AllPricesPositive
    /\ pc = "idle" /\ runs = 1 /\ calls = 0
    /\ regime = "wipeout" /\ i = 2 /\ Len(theta) = 2
    /\ Gt(At(cap_V, 1), Zero)
    /\ Lt(AbsR(Trial(2)), theta_0)

\* C16: for V0 > 0, 0 < L <= 1 and strictly positive prices the wipeout
\* regime is never taken, and the first run ends with every period
\* processed and four raw sequences of length N.
C16_NoWipeoutUnlevered ==
    (ValidParams /\ Le(L, F(1)) /\ AllPricesPositive) =>
        /\ regime # "wipeout"
        /\ (pc = "idle" /\ runs = 1 /\ calls = 0) =>
              /\ i = N - 1
              /\ Len(theta) = N /\ SameLength

\* an unlevered run over three periods has returned after a price fall
C16_Witness ==
    /\ ValidParams /\ Le(L, F(1)) /\ AllPricesPositive
    /\ pc = "idle" /\ runs = 1 /\ calls = 0
    /\ N = 3 /\ Len(theta) = 3
    /\ At(AdjClose, 1) < At(AdjClose, 0)

\* C17: after a second run() on the same object the four exposed series
\* are the ones exposed after the first run().  (Stated for valid
\* configurations and positive prices.)
C17_RunIdempotent ==
    (ValidConfig /\ AllPricesPositive /\ pc = "idle" /\ runs = 2) =>
        Views = once
====
